---- MODULE Spec2Model ----
(***************************************************************************)
(* Model of the line layouter of src/layout/line.rs: boxes are arranged   *)
(* along the cross axis into runs, finished runs are forwarded as lines   *)
(* to a stack layouter.  Lengths (f64 in the source) are integers here.   *)
(***************************************************************************)
EXTENDS Integers, Sequences, FiniteSets, TLC

\* ---------------------------------------------------------------- bounds
\* Largest physical extent (width or height) of an added box.
MaxExtent == 2
\* Largest spacing amount requested by a caller.
MaxSpacing == 2
\* Largest extent of a layout space.
MaxDim == 3
\* Largest number of boxes one run is allowed to collect in the model.
MaxRunLen == 3
\* Largest soft spacing level requested by a caller.
MaxLevel == 2

\* ------------------------------------------------------- geometry types
Min(a, b) == IF a <= b THEN a ELSE b
Max(a, b) == IF a >= b THEN a ELSE b

\* GenAlign, ordered Start < Center < End.
Start == 0
Center == 1
\* End declared first in the enum: End < Start < Center.
EndFirst == Start - 1
End == 2
GenAlign == {Start, Center, End}

\* Gen2<GenAlign>: an alignment per generalized axis.
Aligns == [main : GenAlign, cross : GenAlign]

\* Dir and its accessors.
Dir == {"LTR", "RTL", "TTB", "BTT"}
Axis(dir) == IF dir \in {"LTR", "RTL"} THEN "Horizontal" ELSE "Vertical"
IsPositive(dir) == dir \in {"LTR", "TTB"}

\* Size and Size::ZERO.
Size(w, h) == [width |-> w, height |-> h]
ZERO == Size(0, 0)

\* Size::get(axis) on a physical size.
Get(size, axis) == IF axis = "Horizontal" THEN size.width ELSE size.height

\* Size::generalized(dirs): physical (width, height) to (cross, main).
Generalized(size, dirs) ==
    IF Axis(dirs.main) = "Horizontal" THEN Size(size.height, size.width) ELSE size

\* Size::specialized(dirs): (cross, main) back to physical (width, height).
Specialized(size, dirs) ==
    IF Axis(dirs.main) = "Horizontal" THEN Size(size.height, size.width) ELSE size

\* Size::fits(other).
Fits(a, b) == a.width >= b.width /\ a.height >= b.height

\* SpacingKind: Hard, Soft(level), and the reserved LINE level.
Hard == [hard |-> TRUE, level |-> 0]
Soft(level) == [hard |-> FALSE, level |-> level]
LineLevel == 2
LINE == Soft(LineLevel)

\* LastSpacing: None, Hard, Soft(spacing, level).
LastNone == [tag |-> "None", spacing |-> 0, level |-> 0]
LastHard == [tag |-> "Hard", spacing |-> 0, level |-> 0]
LastSoft(spacing, level) == [tag |-> "Soft", spacing |-> spacing, level |-> level]

\* Option<Gen2<GenAlign>> and Option<f64>.
NoAligns == [some |-> FALSE, main |-> Start, cross |-> Start]
SomeAligns(a) == [some |-> TRUE, main |-> a.main, cross |-> a.cross]
NoUsable == [some |-> FALSE, v |-> 0]
SomeUsable(v) == [some |-> TRUE, v |-> v]

\* Gen2<GenAlign>::default().
DefaultAligns == [main |-> Start, cross |-> Start]

\* ------------------------------------------------------------------ run
\* NewRun with the spacing state None instead of Hard (line 258).
NewRunNone ==
    [layouts |-> << >>,
     size |-> ZERO,
     aligns |-> NoAligns,
     usable |-> NoUsable,
     last_spacing |-> LastNone]

\* LineRun::new().
NewRun ==
    [layouts |-> << >>,
     size |-> ZERO,
     aligns |-> NoAligns,
     usable |-> NoUsable,
     last_spacing |-> LastHard]

\* --------------------------------------------- calls made on the stack
\* One call received by the stack layouter, in a uniform record shape.
Call(name, size, aligns, children, amount, kind, flag) ==
    [call |-> name, size |-> size, aligns |-> aligns, children |-> children,
     amount |-> amount, kind |-> kind, flag |-> flag]

CallAdd(layout, aligns) ==
    Call("add", layout.size, aligns, layout.children, 0, Hard, FALSE)
CallSpacing(amount, kind) ==
    Call("add_spacing", ZERO, DefaultAligns, << >>, amount, kind, FALSE)
CallFinishSpace(hard) ==
    Call("finish_space", ZERO, DefaultAligns, << >>, 0, Hard, hard)
CallSkip(size) ==
    Call("skip_to_fitting_space", size, DefaultAligns, << >>, 0, Hard, FALSE)
CallFinish ==
    Call("finish", ZERO, DefaultAligns, << >>, 0, Hard, FALSE)
CallSetSpaces(spaces, replace_empty) ==
    [call |-> "set_spaces", spaces |-> spaces, flag |-> replace_empty]

\* ------------------------------------------------------ stack layouter
\* StackLayouter::new: the first space is active and untouched.
NewStack(spaces) ==
    [spaces |-> spaces, active |-> 1, usable |-> spaces[1], ruler |-> Start]

\* The space after the active one; the last space is reused.
NextSpace(stack) == Min(stack.active + 1, Len(stack.spaces))

\* Begin laying out into space number i.
StartSpace(stack, i) ==
    [stack EXCEPT !.active = i, !.usable = stack.spaces[i], !.ruler = Start]

\* StackLayouter::usable.
StackUsable(s) == s.stack.usable

\* StackLayouter::is_fitting_alignment.
StackIsFittingAlignment(s, aligns) == aligns.main >= s.stack.ruler

\* Replace the main-axis extent of the stack's usable size.
WithMain(c, stack, m) ==
    LET g == Generalized(stack.usable, c.dirs)
        full == Generalized(stack.spaces[stack.active], c.dirs).height
    IN [stack EXCEPT !.usable =
            Specialized(Size(g.width, Max(0, Min(m, full))), c.dirs)]

\* StackLayouter::add: place a finished line.
StackAdd(c, s, layout, aligns) ==
    LET g == Generalized(s.stack.usable, c.dirs)
        l == Generalized(layout.size, c.dirs)
        placed == WithMain(c, s.stack, g.height - l.height)
        ruled == IF StackIsFittingAlignment(s, aligns)
                 THEN [placed EXCEPT !.ruler = aligns.main]
                 ELSE placed
    IN [s EXCEPT !.stack = ruled, !.out = Append(s.out, CallAdd(layout, aligns))]

\* StackLayouter::add_spacing: hard spacing moves along the main axis.
StackAddSpacing(c, s, amount, kind) ==
    LET g == Generalized(s.stack.usable, c.dirs)
        moved == IF kind.hard
                 THEN WithMain(c, s.stack, g.height - Min(amount, g.height))
                 ELSE s.stack
    IN [s EXCEPT !.stack = moved, !.out = Append(s.out, CallSpacing(amount, kind))]

\* StackLayouter::finish_space.
StackFinishSpace(c, s, hard) ==
    [s EXCEPT !.stack = StartSpace(s.stack, NextSpace(s.stack)),
              !.out = Append(s.out, CallFinishSpace(hard))]

\* StackLayouter::skip_to_fitting_space.
StackSkipToFittingSpace(c, s, size) ==
    LET fitting == {i \in NextSpace(s.stack)..Len(s.stack.spaces) :
                        Fits(s.stack.spaces[i], size)}
        first == CHOOSE i \in fitting : \A j \in fitting : i <= j
        moved == IF fitting = {} THEN s.stack ELSE StartSpace(s.stack, first)
    IN [s EXCEPT !.stack = moved, !.out = Append(s.out, CallSkip(size))]

\* StackLayouter::finish.
StackFinish(c, s) == [s EXCEPT !.out = Append(s.out, CallFinish)]

\* StackLayouter::remaining: what is left of the active space, then the spaces
\* that follow it.
StackRemaining(s) ==
    <<s.stack.usable>>
        \o SubSeq(s.stack.spaces, NextSpace(s.stack), Len(s.stack.spaces))

\* Whether nothing has been laid out into the stack's active space.
StackSpaceIsEmpty(s) ==
    s.stack.usable = s.stack.spaces[s.stack.active] /\ s.stack.ruler = Start

\* StackLayouter::set_spaces: with the flag set and the active space empty the
\* spaces replace all and layouting restarts in the first of them; otherwise
\* they replace the spaces that follow the active one.
StackSetSpaces(c, s, spaces, replace_empty) ==
    LET set == IF replace_empty /\ StackSpaceIsEmpty(s)
               THEN NewStack(spaces)
               ELSE [s.stack EXCEPT
                        !.spaces = SubSeq(@, 1, s.stack.active) \o spaces]
    IN [s EXCEPT !.stack = set,
                 !.out = Append(s.out, CallSetSpaces(spaces, replace_empty))]

\* ------------------------------------------------------- line layouter
\* LineLayouter::usable.
Usable(c, s) ==
    LET base == Generalized(StackUsable(s), c.dirs)
        width == IF s.run.usable.some THEN s.run.usable.v ELSE base.width
    IN Size(width - s.run.size.width, base.height)

\* LineIsEmpty without the comparison of the run's size (line 180).
LineIsEmptyOfBoxes(s) == s.run.layouts = << >>

\* LineLayouter::line_is_empty.
LineIsEmpty(s) == s.run.size = ZERO /\ s.run.layouts = << >>

\* ChildX without the child's extent of line 209.
ChildXNoExtent(c, s, offset, child) ==
    IF IsPositive(c.dirs.cross) THEN offset ELSE s.run.size.width - offset

\* The x coordinate finish_line gives a child of the run.
ChildX(c, s, offset, child) ==
    IF IsPositive(c.dirs.cross)
    THEN offset
    ELSE s.run.size.width - offset - Get(child.size, Axis(c.dirs.cross))

\* LineLayouter::finish_line.
FinishLine(c, s) ==
    LET layout ==
            [size |-> Specialized(s.run.size, c.dirs),
             children |->
                [i \in 1..Len(s.run.layouts) |->
                    [x |-> ChildX(c, s, s.run.layouts[i].offset,
                                  s.run.layouts[i].layout),
                     y |-> 0,
                     layout |-> s.run.layouts[i].layout]]]
        aligns == IF s.run.aligns.some
                  THEN [main |-> s.run.aligns.main, cross |-> s.run.aligns.cross]
                  ELSE DefaultAligns
        added == StackAdd(c, s, layout, aligns)
        reset == [added EXCEPT !.run = NewRun]
    IN StackAddSpacing(c, reset, c.line_spacing, LINE)

\* FinishLineIfNotEmpty without the test of line 224.
FinishLineAlways(c, s) == FinishLine(c, s)

\* LineLayouter::finish_line_if_not_empty.
FinishLineIfNotEmpty(c, s) == IF ~LineIsEmpty(s) THEN FinishLine(c, s) ELSE s

\* AddCrossSpacing with the comparison of line 145 turned around: a soft
\* spacing of a numerically higher level replaces the pending one.
AddCrossSpacingInverted(c, s, spacing, kind) ==
    IF kind.hard
    THEN LET clamped == Min(spacing, Usable(c, s).width)
         IN [s EXCEPT !.run.size.width = @ + clamped,
                      !.run.last_spacing = LastHard]
    ELSE LET last == s.run.last_spacing
             consumes == \/ last.tag = "None"
                         \/ last.tag = "Soft" /\ kind.level > last.level
         IN IF consumes
            THEN [s EXCEPT !.run.last_spacing = LastSoft(spacing, kind.level)]
            ELSE s

\* AddCrossSpacing without the clamp of line 135.
AddCrossSpacingUnclamped(c, s, spacing, kind) ==
    IF kind.hard
    THEN [s EXCEPT !.run.size.width = @ + spacing,
                   !.run.last_spacing = LastHard]
    ELSE LET last == s.run.last_spacing
             consumes == \/ last.tag = "None"
                         \/ last.tag = "Soft" /\ kind.level < last.level
         IN IF consumes
            THEN [s EXCEPT !.run.last_spacing = LastSoft(spacing, kind.level)]
            ELSE s

\* LineLayouter::add_cross_spacing.
AddCrossSpacing(c, s, spacing, kind) ==
    IF kind.hard
    THEN LET clamped == Min(spacing, Usable(c, s).width)
         IN [s EXCEPT !.run.size.width = @ + clamped,
                      !.run.last_spacing = LastHard]
    ELSE LET last == s.run.last_spacing
             consumes == \/ last.tag = "None"
                         \/ last.tag = "Soft" /\ kind.level < last.level
         IN IF consumes
            THEN [s EXCEPT !.run.last_spacing = LastSoft(spacing, kind.level)]
            ELSE s

\* LineLayouter::finish_space.
FinishSpace(c, s, hard) == StackFinishSpace(c, FinishLineIfNotEmpty(c, s), hard)

\* RestUsable without the factor 2.0 of line 70: Center reserves the previous
\* run's width once, like End.
RestUsableOnce(c, s, aligns) ==
    Get(StackUsable(s), Axis(c.dirs.cross)) - s.run.size.width

\* The usable override of the run spawned by a cross alignment increase; the
\* match arm of Start (line 69) is never taken.
RestUsable(c, s, aligns) ==
    LET usable == Get(StackUsable(s), Axis(c.dirs.cross))
    IN IF aligns.cross = Center
       THEN usable - 2 * s.run.size.width
       ELSE usable - s.run.size.width

\* ClosesSpace with the repeat flag of line 57 negated.
ClosesSpaceNotRepeating(c, s, aligns) ==
    ~StackIsFittingAlignment(s, aligns) /\ ~c.repeat

\* LineLayouter::add, whether a changed main alignment closes the space.
ClosesSpace(c, s, aligns) == ~StackIsFittingAlignment(s, aligns) /\ c.repeat

\* RestRun without the assignment of line 74: the spawned run starts with
\* height zero.
RestRunOwnHeight(c, s, aligns) ==
    [NewRun EXCEPT !.usable = SomeUsable(RestUsable(c, s, aligns))]

\* LineLayouter::add, the run spawned by a cross alignment increase.
RestRun(c, s, aligns) ==
    [NewRun EXCEPT !.usable = SomeUsable(RestUsable(c, s, aligns)),
                   !.size.height = s.run.size.height]

\* Rewind without the minus sign of line 77.
RewindForward(c, s, rest_run) == StackAddSpacing(c, s, rest_run.size.height, Hard)

\* LineLayouter::add, the main-axis spacing that puts the spawned run on the
\* row of the run just finished.
Rewind(c, s, rest_run) == StackAddSpacing(c, s, -rest_run.size.height, Hard)

\* Reconcile without the branch of lines 62 and 63: a smaller cross alignment
\* lets the run go on.
ReconcileKeepsOn(c, s, aligns) ==
    LET prev == s.run.aligns
    IN IF ~prev.some THEN s
       ELSE IF aligns.main # prev.main
       THEN IF ClosesSpace(c, s, aligns)
            THEN FinishSpace(c, s, TRUE)
            ELSE FinishLine(c, s)
       ELSE IF aligns.cross > prev.cross
       THEN LET rest_run == RestRun(c, s, aligns)
                rewound == Rewind(c, FinishLine(c, s), rest_run)
            IN [rewound EXCEPT !.run = rest_run]
       ELSE s

\* LineLayouter::add, the alignment reconciliation (first block).
Reconcile(c, s, aligns) ==
    LET prev == s.run.aligns
    IN IF ~prev.some THEN s
       ELSE IF aligns.main # prev.main
       THEN IF ClosesSpace(c, s, aligns)
            THEN FinishSpace(c, s, TRUE)
            ELSE FinishLine(c, s)
       ELSE IF aligns.cross < prev.cross
       THEN FinishLine(c, s)
       ELSE IF aligns.cross > prev.cross
       THEN LET rest_run == RestRun(c, s, aligns)
                rewound == Rewind(c, FinishLine(c, s), rest_run)
            IN [rewound EXCEPT !.run = rest_run]
       ELSE s

\* ConsumeSoft without lines 83 to 85: pending soft spacing is left alone.
ConsumeSoftSkipped(c, s) == s

\* LineLayouter::add, the conversion of pending soft spacing.
ConsumeSoft(c, s) ==
    IF s.run.last_spacing.tag = "Soft"
    THEN AddCrossSpacing(c, s, s.run.last_spacing.spacing, Hard)
    ELSE s

\* MakeFit without the second fit test of line 95: the skip is always requested
\* once the box did not fit.
MakeFitAlwaysSkip(c, s, layout) ==
    LET size == Generalized(layout.size, c.dirs)
    IN IF ~Fits(Usable(c, s), size)
       THEN LET broken == IF ~LineIsEmpty(s) THEN FinishLine(c, s) ELSE s
            IN StackSkipToFittingSpace(c, broken, layout.size)
       ELSE s

\* LineLayouter::add, the fit check.
MakeFit(c, s, layout) ==
    LET size == Generalized(layout.size, c.dirs)
    IN IF ~Fits(Usable(c, s), size)
       THEN LET broken == IF ~LineIsEmpty(s) THEN FinishLine(c, s) ELSE s
            IN IF ~Fits(Usable(c, broken), size)
               THEN StackSkipToFittingSpace(c, broken, layout.size)
               ELSE broken
       ELSE s

\* Place with the two statements of lines 101 and 103 swapped: the offset is
\* read after the width has advanced.
PlaceAfterAdvance(c, s, layout, aligns) ==
    LET size == Generalized(layout.size, c.dirs)
    IN [s EXCEPT
          !.run.aligns = SomeAligns(aligns),
          !.run.layouts = Append(@, [offset |-> s.run.size.width + size.width,
                                     layout |-> layout]),
          !.run.size = Size(s.run.size.width + size.width,
                            Max(s.run.size.height, size.height)),
          !.run.last_spacing = LastNone]

\* Place with the box put in front of the run's boxes instead of pushed.
PlaceInFront(c, s, layout, aligns) ==
    LET size == Generalized(layout.size, c.dirs)
    IN [s EXCEPT
          !.run.aligns = SomeAligns(aligns),
          !.run.layouts = <<[offset |-> s.run.size.width, layout |-> layout]>> \o @,
          !.run.size = Size(s.run.size.width + size.width,
                            Max(s.run.size.height, size.height)),
          !.run.last_spacing = LastNone]

\* LineLayouter::add, the placement of the box.
Place(c, s, layout, aligns) ==
    LET size == Generalized(layout.size, c.dirs)
    IN [s EXCEPT
          !.run.aligns = SomeAligns(aligns),
          !.run.layouts = Append(@, [offset |-> s.run.size.width, layout |-> layout]),
          !.run.size = Size(s.run.size.width + size.width,
                            Max(s.run.size.height, size.height)),
          !.run.last_spacing = LastNone]

\* LineLayouter::add.
Add(c, s, layout, aligns) ==
    Place(c, MakeFit(c, ConsumeSoft(c, Reconcile(c, s, aligns)), layout),
          layout, aligns)

\* AddMainSpacing with the two statements of lines 127 and 128 swapped.
AddMainSpacingFirst(c, s, spacing, kind) ==
    FinishLineIfNotEmpty(c, StackAddSpacing(c, s, spacing, kind))

\* LineLayouter::add_main_spacing.
AddMainSpacing(c, s, spacing, kind) ==
    StackAddSpacing(c, FinishLineIfNotEmpty(c, s), spacing, kind)

\* LineLayouter::finish.
Finish(c, s) == StackFinish(c, FinishLineIfNotEmpty(c, s))

\* LineLayouter::set_line_spacing.
SetLineSpacing(c, line_spacing) == [c EXCEPT !.line_spacing = line_spacing]

\* SetSpaces with the flag forwarded as the caller passed it.
SetSpacesUnguarded(c, s, spaces, replace_empty) ==
    StackSetSpaces(c, s, spaces, replace_empty)

\* LineLayouter::set_spaces.
SetSpaces(c, s, spaces, replace_empty) ==
    StackSetSpaces(c, s, spaces, replace_empty /\ LineIsEmpty(s))

\* Size::get_mut(axis) -= amount on a physical size.
Shrink(size, axis, amount) ==
    IF axis = "Horizontal"
    THEN Size(size.width - amount, size.height)
    ELSE Size(size.width, size.height - amount)

\* Remaining with the run's width taken off instead of its height.
RemainingLessWidth(c, s) ==
    LET spaces == StackRemaining(s)
    IN [run |-> s.run, stack |-> s.stack, out |-> s.out,
        spaces |-> [spaces EXCEPT
                       ![1] = Shrink(@, Axis(c.dirs.main), s.run.size.width)]]

\* LineLayouter::remaining: the layouter as the call leaves it, and the
\* spaces it returns.
Remaining(c, s) ==
    LET spaces == StackRemaining(s)
    IN [run |-> s.run, stack |-> s.stack, out |-> s.out,
        spaces |-> [spaces EXCEPT
                       ![1] = Shrink(@, Axis(c.dirs.main), s.run.size.height)]]

\* ---------------------------------------------------------------- state
VARIABLES
    ctx,    \* LineContext: dirs, repeat, line_spacing
    stack,  \* the underlying StackLayouter
    run,    \* the in-progress LineRun
    pc,     \* "active", or "finished" once finish() consumed the layouter
    hist,   \* the boxes added so far while only equally aligned adds were made
    row,    \* the runs closed earlier on the visual row of the current run
    owed    \* the boxes added and not yet forwarded to the stack in a line

vars == <<ctx, stack, run, pc, hist, row, owed>>

\* Largest inter-line spacing of the context.
MaxLineSpacing == 1

\* The boxes a caller may add: every physical size with extents 1..MaxExtent.
Boxes == {[size |-> Size(w, h), children |-> << >>] : w, h \in 1..MaxExtent}

\* A box that remembers the alignment it is added with; the layouter never
\* reads the mark.
Tagged(layout, aligns) ==
    [size |-> layout.size, children |-> layout.children, aligns |-> aligns]

\* The alignments a caller may add a box with.
AddAligns == {a \in Aligns : a.main # Center}

\* The spacing amounts (positive) and soft levels a caller may pass.
Amounts == 1..MaxSpacing
Levels == 1..MaxLevel

\* The spacing kinds a caller may request.
Kinds == {Hard} \cup {Soft(level) : level \in Levels}

\* The layout spaces of the scenarios: a roomy one and one too small for the
\* largest boxes.
Roomy == Size(MaxDim, MaxDim - 1)
Cramped == Size(1, 1)

\* The contexts a layouter is created with: each direction of the cross axis,
\* repeating and not, with and without a space every box fits.
Contexts ==
    {[dirs |-> [main |-> "TTB", cross |-> "LTR"], repeat |-> FALSE,
      spaces |-> <<Roomy>>],
     [dirs |-> [main |-> "TTB", cross |-> "RTL"], repeat |-> TRUE,
      spaces |-> <<Cramped, Roomy>>],
     [dirs |-> [main |-> "LTR", cross |-> "TTB"], repeat |-> TRUE,
      spaces |-> <<Roomy>>],
     [dirs |-> [main |-> "LTR", cross |-> "BTT"], repeat |-> FALSE,
      spaces |-> <<Cramped>>]}

\* Largest number of spaces the stack holds in the model.
MaxSpaces == 2

\* The space lists a caller may pass to set_spaces.
SpaceLists == {<<Cramped>>}

\* The layouter's state handed to the operations above.
Here == [run |-> run, stack |-> stack, out |-> << >>]

\* Whether a sequence of stack calls holds a line.
HasLine(calls) == \E i \in 1..Len(calls) : calls[i].call = "add"

\* hist after an add of layout with aligns that made the stack calls `calls`.
HistAfterAdd(layout, aligns, calls) ==
    IF /\ hist.plain
       /\ Len(hist.boxes) < MaxRunLen
       /\ (hist.boxes = << >> \/ aligns = hist.aligns)
    THEN [plain |-> TRUE, boxes |-> Append(hist.boxes, layout), aligns |-> aligns,
          forwarded |-> hist.forwarded \/ HasLine(calls)]
    ELSE [plain |-> FALSE, boxes |-> << >>, aligns |-> DefaultAligns,
          forwarded |-> FALSE]

NoHist ==
    [plain |-> FALSE, boxes |-> << >>, aligns |-> DefaultAligns, forwarded |-> FALSE]

\* row after an add with aligns that left the run `after`.
RowAfterAdd(aligns, after) ==
    IF ~after.usable.some THEN << >>
    ELSE IF /\ run.aligns.some
            /\ aligns.main = run.aligns.main
            /\ aligns.cross > run.aligns.cross
    THEN Append(row, [cross |-> run.aligns.cross, width |-> run.size.width])
    ELSE row

\* row after any other operation that left the run `after`.
RowAfter(after) == IF ~after.usable.some THEN << >> ELSE row

RECURSIVE Children(_)
\* The boxes the lines among a sequence of stack calls hold, in call order.
Children(calls) ==
    IF calls = << >> THEN << >>
    ELSE (IF calls[1].call = "add"
          THEN [k \in 1..Len(calls[1].children) |-> calls[1].children[k].layout]
          ELSE << >>)
         \o Children(Tail(calls))

\* owed after an operation that found `boxes` not yet forwarded and made the
\* stack calls `calls`: the forwarded children are taken off the front, and
\* the record is spoilt if they are not the front.
OwedAfter(boxes, calls) ==
    LET kids == Children(calls)
    IN IF Len(kids) <= Len(boxes) /\ SubSeq(boxes, 1, Len(kids)) = kids
       THEN [ok |-> owed.ok, boxes |-> SubSeq(boxes, Len(kids) + 1, Len(boxes))]
       ELSE [ok |-> FALSE, boxes |-> << >>]

\* LineLayouter::new.
Init ==
    /\ \E context \in Contexts, line_spacing \in 0..MaxLineSpacing :
         /\ ctx = [dirs |-> context.dirs, repeat |-> context.repeat,
                   line_spacing |-> line_spacing]
         /\ stack = NewStack(context.spaces)
    /\ run = NewRun
    /\ pc = "active"
    /\ hist = [plain |-> TRUE, boxes |-> << >>, aligns |-> DefaultAligns,
               forwarded |-> FALSE]
    /\ row = << >>
    /\ owed = [ok |-> TRUE, boxes |-> << >>]

\* A call of add(layout, aligns).
DoAdd ==
    /\ pc = "active"
    /\ Len(run.layouts) < MaxRunLen
    /\ \E layout \in Boxes, aligns \in AddAligns :
         LET box == Tagged(layout, aligns)
             s == Add(ctx, Here, box, aligns)
         IN /\ run' = s.run
            /\ stack' = s.stack
            /\ hist' = HistAfterAdd(box, aligns, s.out)
            /\ row' = RowAfterAdd(aligns, s.run)
            /\ owed' = OwedAfter(Append(owed.boxes, box), s.out)
    /\ UNCHANGED <<ctx, pc>>

\* A call of add_cross_spacing(spacing, kind).
DoAddCrossSpacing ==
    /\ pc = "active"
    /\ \E spacing \in Amounts, kind \in Kinds :
         LET s == AddCrossSpacing(ctx, Here, spacing, kind)
         IN /\ run' = s.run
            /\ stack' = s.stack
            /\ row' = RowAfter(s.run)
            /\ owed' = OwedAfter(owed.boxes, s.out)
    /\ hist' = NoHist
    /\ UNCHANGED <<ctx, pc>>

\* A call of add_main_spacing(spacing, kind).
DoAddMainSpacing ==
    /\ pc = "active"
    /\ \E spacing \in Amounts, kind \in Kinds :
         LET s == AddMainSpacing(ctx, Here, spacing, kind)
         IN /\ run' = s.run
            /\ stack' = s.stack
            /\ row' = RowAfter(s.run)
            /\ owed' = OwedAfter(owed.boxes, s.out)
    /\ hist' = NoHist
    /\ UNCHANGED <<ctx, pc>>

\* A call of set_line_spacing(line_spacing).
DoSetLineSpacing ==
    /\ pc = "active"
    /\ \E line_spacing \in 0..MaxLineSpacing :
         /\ ctx' = SetLineSpacing(ctx, line_spacing)
    /\ hist' = NoHist
    /\ UNCHANGED <<stack, run, pc, row, owed>>

\* A call of set_spaces(spaces, replace_empty).
DoSetSpaces ==
    /\ pc = "active"
    /\ \E spaces \in SpaceLists, replace_empty \in BOOLEAN :
         LET s == SetSpaces(ctx, Here, spaces, replace_empty)
         IN /\ Len(s.stack.spaces) <= MaxSpaces
            /\ run' = s.run
            /\ stack' = s.stack
            /\ row' = RowAfter(s.run)
            /\ owed' = OwedAfter(owed.boxes, s.out)
    /\ hist' = NoHist
    /\ UNCHANGED <<ctx, pc>>

\* A call of remaining().
DoRemaining ==
    /\ pc = "active"
    /\ LET s == Remaining(ctx, Here)
       IN /\ run' = s.run
          /\ stack' = s.stack
    /\ UNCHANGED <<ctx, pc, hist, row, owed>>

\* A call of finish_space(hard).
DoFinishSpace ==
    /\ pc = "active"
    /\ \E hard \in BOOLEAN :
         LET s == FinishSpace(ctx, Here, hard)
         IN /\ run' = s.run
            /\ stack' = s.stack
            /\ row' = RowAfter(s.run)
            /\ owed' = OwedAfter(owed.boxes, s.out)
    /\ hist' = NoHist
    /\ UNCHANGED <<ctx, pc>>

\* A call of finish_line().
DoFinishLine ==
    /\ pc = "active"
    /\ LET s == FinishLine(ctx, Here)
       IN /\ run' = s.run
          /\ stack' = s.stack
          /\ row' = RowAfter(s.run)
          /\ owed' = OwedAfter(owed.boxes, s.out)
    /\ hist' = NoHist
    /\ UNCHANGED <<ctx, pc>>

\* A call of finish(): the layouter is consumed.
DoFinish ==
    /\ pc = "active"
    /\ LET s == Finish(ctx, Here)
       IN /\ run' = s.run
          /\ stack' = s.stack
          /\ row' = RowAfter(s.run)
          /\ owed' = OwedAfter(owed.boxes, s.out)
    /\ pc' = "finished"
    /\ hist' = NoHist
    /\ UNCHANGED ctx

Next ==
    \/ DoAdd
    \/ DoAddCrossSpacing
    \/ DoAddMainSpacing
    \/ DoSetLineSpacing
    \/ DoSetSpaces
    \/ DoRemaining
    \/ DoFinishSpace
    \/ DoFinishLine
    \/ DoFinish

Spec == Init /\ [][Next]_vars

\* ================================================================ claims
\* The cross and main extents of a physical size under the context's
\* directions, read off the direction names.
CrossExtent(size) ==
    IF ctx.dirs.cross \in {"LTR", "RTL"} THEN size.width ELSE size.height
MainExtent(size) ==
    IF ctx.dirs.cross \in {"LTR", "RTL"} THEN size.height ELSE size.width

\* The cross width a run may fill: the override of a spawned run, else the
\* stack's usable cross width.
Window == IF run.usable.some THEN run.usable.v ELSE CrossExtent(stack.usable)

RECURSIVE SumCross(_)
SumCross(boxes) ==
    IF boxes = << >> THEN 0
    ELSE CrossExtent(boxes[1].size) + SumCross(Tail(boxes))

RECURSIVE MaxMain(_)
MaxMain(boxes) ==
    IF boxes = << >> THEN 0
    ELSE Max(MainExtent(boxes[1].size), MaxMain(Tail(boxes)))

\* The boxes held by the run, without their offsets.
RunBoxes == [i \in 1..Len(run.layouts) |-> run.layouts[i].layout]

\* The lines among a sequence of stack calls.
Lines(calls) == SelectSeq(calls, LAMBDA call : call.call = "add")

\* The boxes added so far are equally aligned, nothing else was called, and
\* together they fit the first space.
PlainFit ==
    /\ hist.plain
    /\ hist.boxes # << >>
    /\ SumCross(hist.boxes) <= CrossExtent(stack.spaces[1])
    /\ MaxMain(hist.boxes) <= MainExtent(stack.spaces[1])

\* C1: on a fresh layouter, equally aligned boxes that together fit the usable
\* cross width are all held by the one run, no line was forwarded, box i sits
\* at the sum of the cross extents before it, the run is as wide as their sum
\* and as high as the highest, and finish emits one line of that height.
C1_OneLine ==
    PlainFit =>
        /\ ~hist.forwarded
        /\ stack = NewStack(stack.spaces)
        /\ RunBoxes = hist.boxes
        /\ \A i \in 1..Len(run.layouts) :
              run.layouts[i].offset = SumCross(SubSeq(hist.boxes, 1, i - 1))
        /\ run.size.width = SumCross(hist.boxes)
        /\ run.size.height = MaxMain(hist.boxes)
        /\ LET lines == Lines(Finish(ctx, Here).out)
           IN /\ Len(lines) = 1
              /\ MainExtent(lines[1].size) = MaxMain(hist.boxes)
              /\ CrossExtent(lines[1].size) = SumCross(hist.boxes)

\* Three boxes of differing extents were added and lie on one line.
C1_Witness ==
    /\ PlainFit
    /\ Len(hist.boxes) = 3
    /\ Len(run.layouts) = 3
    /\ run.layouts[3].offset = 2
    /\ \E i, j \in 1..3 : MainExtent(hist.boxes[i].size) # MainExtent(hist.boxes[j].size)

\* The alignment captured by the run.
RunAligns == [main |-> run.aligns.main, cross |-> run.aligns.cross]

\* The run width at the fit check of an add with the run's alignment: pending
\* soft spacing has been applied by then.
PendingWidth ==
    run.size.width
        + (IF run.last_spacing.tag = "Soft"
           THEN Min(run.last_spacing.spacing, Window - run.size.width)
           ELSE 0)

\* A box with the run's alignment that is too wide for what the run has left.
TooWide(layout) ==
    /\ run.aligns.some
    /\ CrossExtent(layout.size) > Window - PendingWidth

\* Whether a box fits the empty run that follows the current line.
FitsFresh(layout) ==
    /\ CrossExtent(layout.size) <= CrossExtent(stack.usable)
    /\ MainExtent(layout.size) <= MainExtent(FinishLine(ctx, Here).stack.usable)

\* What an add of a too wide box does, apart from the height of the line it
\* closes: one line and its line spacing reach the stack, then the skip if
\* and only if the box does not fit the fresh run; the box starts the new run.
BreaksOnce(layout, s) ==
    /\ Len(Lines(s.out)) = 1
    /\ Len(s.out) \in {2, 3}
    /\ s.out[1].call = "add"
    /\ s.out[2] = CallSpacing(ctx.line_spacing, LINE)
    /\ Len(s.out) = 3 => s.out[3] = CallSkip(layout.size)
    /\ Len(s.out) = 3 <=> ~FitsFresh(layout)
    /\ s.run.layouts = <<[offset |-> 0, layout |-> layout]>>
    /\ ~s.run.usable.some

\* C2 as stated: a too wide box of the run's alignment finishes exactly one
\* line, starts the new run at offset 0, requests the skip only if it does not
\* fit the fresh run, and the closed line is as high as the highest box it
\* contains.
C2_BreakOwnHeight ==
    \A layout \in Boxes :
        TooWide(layout) =>
            LET s == Add(ctx, Here, layout, RunAligns)
            IN /\ BreaksOnce(layout, s)
               /\ MainExtent(s.out[1].size) = MaxMain(RunBoxes)

\* C2 amended: as above, but the closed line has the height of the run, which
\* is the highest of its boxes for a run without usable override and at least
\* that for a run spawned by a cross alignment increase (it inherits the
\* height of the run before it).
C2_BreakRunHeight ==
    \A layout \in Boxes :
        TooWide(layout) =>
            LET s == Add(ctx, Here, layout, RunAligns)
            IN /\ BreaksOnce(layout, s)
               /\ MainExtent(s.out[1].size) = run.size.height
               /\ run.size.height >= MaxMain(RunBoxes)
               /\ ~run.usable.some => run.size.height = MaxMain(RunBoxes)

\* A spawned run higher than its own boxes is about to be closed by a box
\* that is too wide for it.
C2_Witness ==
    /\ run.usable.some
    /\ run.layouts # << >>
    /\ run.size.height > MaxMain(RunBoxes)
    /\ \E layout \in Boxes :
          /\ TooWide(layout)
          /\ Len(Add(ctx, Here, layout, RunAligns).out) = 2

\* What an add of a box with the run's alignment put between the run's old
\* width and the box: read off the box's offset when it joined the run, and
\* off the width of the closed line when the add broke the line.
AddedBefore(s) ==
    IF Lines(s.out) = << >>
    THEN s.run.layouts[Len(s.run.layouts)].offset - run.size.width
    ELSE CrossExtent(Lines(s.out)[1].size) - run.size.width

\* How soft requests collapse, apart from what the next add materializes:
\* from None a lower level replaces a higher one, a higher or equal level is
\* dropped, and after hard spacing every soft request is dropped.
Collapses ==
    /\ run.last_spacing.tag = "None" =>
          \A a, b \in Amounts, lo, hi \in Levels :
              lo < hi =>
                  LET high == AddCrossSpacing(ctx, Here, a, Soft(hi))
                      low == AddCrossSpacing(ctx, Here, a, Soft(lo))
                  IN /\ high.run.last_spacing = LastSoft(a, hi)
                     /\ low.run.last_spacing = LastSoft(a, lo)
                     /\ AddCrossSpacing(ctx, high, b, Soft(lo)).run.last_spacing
                            = LastSoft(b, lo)
                     /\ AddCrossSpacing(ctx, low, b, Soft(hi)) = low
                     /\ AddCrossSpacing(ctx, low, b, Soft(lo)) = low
                     /\ AddCrossSpacing(ctx, high, b, Soft(hi)) = high
    /\ run.last_spacing.tag = "Hard" =>
          \A a \in Amounts, level \in Levels :
              AddCrossSpacing(ctx, Here, a, Soft(level)) = Here

\* The state a higher level request followed by a lower level one leaves.
Collapsed(a, b, lo, hi) ==
    AddCrossSpacing(ctx, AddCrossSpacing(ctx, Here, a, Soft(hi)), b, Soft(lo))

\* C3 as stated: soft spacing collapses to the numerically lowest level, and
\* after Soft(a, hi), Soft(b, lo) exactly b is added to the run width at the
\* next add.
C3_CollapseExact ==
    /\ Collapses
    /\ run.last_spacing.tag = "None" =>
          \A a, b \in Amounts, lo, hi \in Levels, layout \in Boxes :
              lo < hi =>
                  AddedBefore(Add(ctx, Collapsed(a, b, lo, hi), layout, RunAligns)) = b

\* C3 amended: the collapse is as stated, and at the next add of a box with
\* the run's alignment the run width grows by b clamped to the usable width,
\* min(b, usable width), before the box is placed.
C3_CollapseClamped ==
    /\ Collapses
    /\ run.last_spacing.tag = "None" =>
          \A a, b \in Amounts, lo, hi \in Levels, layout \in Boxes :
              lo < hi =>
                  AddedBefore(Add(ctx, Collapsed(a, b, lo, hi), layout, RunAligns))
                      = Min(b, Window - run.size.width)

\* A level 1 soft spacing of 2 is pending on a run with room for only 1.
C3_Witness ==
    /\ run.last_spacing = LastSoft(2, 1)
    /\ run.layouts # << >>
    /\ Window - run.size.width = 1

\* The cross width the run has left.
Room == Window - run.size.width

\* C4: hard cross spacing grows the run width by min(s, usable width), so a
\* request larger than the usable width consumes exactly the usable width;
\* neither requested directly nor converted from pending soft spacing does it
\* take the run width beyond the run's usable window.
C4_HardClamped ==
    /\ \A spacing \in Amounts :
          LET s == AddCrossSpacing(ctx, Here, spacing, Hard)
          IN /\ s.run.size.width = run.size.width + Min(spacing, Room)
             /\ spacing > Room => s.run.size.width = Window
             /\ s.run.size.width <= Window
             /\ s.run.last_spacing = LastHard
             /\ s.stack = stack
    /\ run.last_spacing.tag = "Soft" =>
          \A layout \in Boxes :
              run.size.width + AddedBefore(Add(ctx, Here, layout, RunAligns)) <= Window
    /\ run.last_spacing.tag = "Hard" => run.size.width <= Window

\* A run with boxes has room for 1 and a hard spacing of 2 fills it exactly.
C4_Witness ==
    /\ run.layouts # << >>
    /\ Room = 1
    /\ AddCrossSpacing(ctx, Here, 2, Hard).run.size.width = Window

\* Twice the cross coordinates a run of the given cross alignment and width
\* occupies inside a usable cross width u: Start at [0, w], Center at
\* [(u - w) / 2, (u + w) / 2], End at [u - w, u].
Lo2(cross, w, u) ==
    IF cross = Start THEN 0 ELSE IF cross = Center THEN u - w ELSE 2 * u - 2 * w
Hi2(cross, w, u) ==
    IF cross = Start THEN 2 * w ELSE IF cross = Center THEN u + w ELSE 2 * u

\* The runs of the current visual row, the current run last.
RowRuns == Append(row, [cross |-> run.aligns.cross, width |-> run.size.width])

\* C5: the runs sharing one visual row, each placed inside the stack's usable
\* cross width by its cross alignment, never overlap on the cross axis.
C5_NoDoubleBooking ==
    (run.usable.some /\ run.aligns.some) =>
        LET u == CrossExtent(stack.usable)
        IN \A i, j \in 1..Len(RowRuns) :
              i < j => Hi2(RowRuns[i].cross, RowRuns[i].width, u)
                          <= Lo2(RowRuns[j].cross, RowRuns[j].width, u)

\* An add with the run's main alignment and a greater cross alignment.
CrossIncrease(aligns) ==
    /\ run.aligns.some
    /\ aligns.main = run.aligns.main
    /\ aligns.cross > run.aligns.cross

\* The usable window of the run such an add spawns.
SiblingWindow(aligns) ==
    CrossExtent(stack.usable)
        - (IF aligns.cross = Center THEN 2 ELSE 1) * run.size.width

\* C6: when a box with a greater cross alignment fits the spawned run, the
\* stack receives the previous run as a line of its height h, the line
\* spacing, then a Hard main spacing of -h, so the hard main-axis advance nets
\* to zero; the box sits at offset 0 of the spawned run, whose height is
\* max(h, main extent of the box).
C6_SiblingRewind ==
    \A layout \in Boxes, aligns \in AddAligns :
        (/\ CrossIncrease(aligns)
         /\ CrossExtent(layout.size) <= SiblingWindow(aligns)
         /\ MainExtent(layout.size) <= MainExtent(stack.usable)) =>
            LET s == Add(ctx, Here, layout, aligns)
                h == run.size.height
            IN /\ Len(s.out) = 3
               /\ s.out[1].call = "add"
               /\ MainExtent(s.out[1].size) = h
               /\ CrossExtent(s.out[1].size) = run.size.width
               /\ s.out[1].aligns = RunAligns
               /\ s.out[2] = CallSpacing(ctx.line_spacing, LINE)
               /\ s.out[3] = CallSpacing(-h, Hard)
               /\ MainExtent(s.out[1].size) + s.out[3].amount = 0
               /\ s.run.usable.some
               /\ s.run.layouts = <<[offset |-> 0, layout |-> layout]>>
               /\ s.run.size.height = Max(h, MainExtent(layout.size))
               /\ s.run.aligns = SomeAligns(aligns)

\* A spawned run holds its first box and is higher than that box: it kept the
\* height of the run before it.
C6_Witness ==
    /\ run.usable.some
    /\ Len(run.layouts) = 1
    /\ Len(row) = 1
    /\ run.size.height = 2
    /\ MainExtent(run.layouts[1].layout.size) = 1

\* C7: the run spawned by a cross alignment increase has the usable override
\* U - 2 * w for Center and U - w for End, U the stack's usable cross width and
\* w the width of the run before it; usable() reports the override, or the
\* stack's usable cross width without one, minus the run width.
C7_RestUsable ==
    /\ \A layout \in Boxes, aligns \in AddAligns :
          CrossIncrease(aligns) =>
              LET s == Add(ctx, Here, layout, aligns)
              IN s.run.usable.some =>
                    s.run.usable.v =
                        IF aligns.cross = Center
                        THEN CrossExtent(stack.usable) - 2 * run.size.width
                        ELSE CrossExtent(stack.usable) - run.size.width
    /\ (run.usable.some /\ run.aligns.some) =>
          /\ run.aligns.cross \in {Center, End}
          /\ run.usable.v =
                CrossExtent(stack.usable)
                    - (IF run.aligns.cross = Center THEN 2 ELSE 1) * row[Len(row)].width
    /\ Usable(ctx, Here).width =
          (IF run.usable.some THEN run.usable.v ELSE CrossExtent(stack.usable))
              - run.size.width
    /\ Usable(ctx, Here).height = MainExtent(stack.usable)

\* A Center run was spawned after a run of width 1 in a usable width of 3 and
\* may fill 1.
C7_Witness ==
    /\ run.usable = SomeUsable(1)
    /\ run.aligns.some
    /\ run.aligns.cross = Center
    /\ row = <<[cross |-> Start, width |-> 1]>>
    /\ CrossExtent(stack.usable) = 3

\* An add whose main alignment differs from the one the run captured.
MainChange(aligns) == run.aligns.some /\ aligns.main # run.aligns.main

\* The finish_space calls among a sequence of stack calls.
SpaceBreaks(calls) == SelectSeq(calls, LAMBDA call : call.call = "finish_space")

\* The add finishes the line and closes the space with a hard break.
HardBreak(s) ==
    /\ Len(s.out) >= 3
    /\ s.out[1].call = "add"
    /\ s.out[1].aligns = RunAligns
    /\ s.out[2] = CallSpacing(ctx.line_spacing, LINE)
    /\ s.out[3] = CallFinishSpace(TRUE)
    /\ Len(SpaceBreaks(s.out)) = 1
    /\ Len(Lines(s.out)) = 1

\* The add finishes the line and leaves the space open.
LineBreakOnly(s) ==
    /\ Len(s.out) >= 2
    /\ s.out[1].call = "add"
    /\ s.out[1].aligns = RunAligns
    /\ s.out[2] = CallSpacing(ctx.line_spacing, LINE)
    /\ SpaceBreaks(s.out) = << >>
    /\ Len(Lines(s.out)) = 1

\* C8 as stated: on a changed main alignment a hard space break is forced if
\* the stack reports the alignment as not fitting and repeat is false; in
\* every other case the line is finished and the space stays open.
C8_BreakWhenNotRepeating ==
    \A layout \in Boxes, aligns \in AddAligns :
        MainChange(aligns) =>
            LET s == Add(ctx, Here, layout, aligns)
            IN IF ~StackIsFittingAlignment(Here, aligns) /\ ~ctx.repeat
               THEN HardBreak(s)
               ELSE LineBreakOnly(s)

\* C8 amended: on a changed main alignment a hard space break is forced if
\* the stack reports the alignment as not fitting and repeat is true; in
\* every other case the line is finished and the space stays open.
C8_BreakWhenRepeating ==
    \A layout \in Boxes, aligns \in AddAligns :
        MainChange(aligns) =>
            LET s == Add(ctx, Here, layout, aligns)
            IN IF ~StackIsFittingAlignment(Here, aligns) /\ ctx.repeat
               THEN HardBreak(s)
               ELSE LineBreakOnly(s)

\* In a repeating context the run is End aligned on the main axis, the stack
\* holds an End aligned line, and a Start aligned box closes the space.
C8_Witness ==
    /\ ctx.repeat
    /\ run.aligns.some
    /\ run.aligns.main = End
    /\ stack.ruler = End
    /\ HardBreak(Add(ctx, Here, CHOOSE layout \in Boxes : TRUE,
                     [main |-> Start, cross |-> Start]))

\* What the pending soft spacing amounts to once converted to hard spacing.
SoftConverted == Min(run.last_spacing.spacing, Room)

\* C9 as stated: pending soft spacing is converted to hard spacing and added
\* to the run width before a following box of the run or a following hard
\* cross spacing is applied; neither discards it.
C9_SoftNeverDiscarded ==
    run.last_spacing.tag = "Soft" =>
        /\ \A layout \in Boxes :
              AddedBefore(Add(ctx, Here, layout, RunAligns)) = SoftConverted
        /\ \A spacing \in Amounts :
              AddCrossSpacing(ctx, Here, spacing, Hard).run.size.width =
                  run.size.width + SoftConverted
                      + Min(spacing, Room - SoftConverted)

\* C9 amended: pending soft spacing is converted to hard spacing and added to
\* the run width before a following box of the run's alignment is placed; a
\* following hard cross spacing discards the pending soft amount and adds
\* only its own clamped amount.
C9_SoftConsumedByBox ==
    run.last_spacing.tag = "Soft" =>
        /\ \A layout \in Boxes :
              LET s == Add(ctx, Here, layout, RunAligns)
              IN /\ AddedBefore(s) = SoftConverted
                 /\ s.run.last_spacing = LastNone
        /\ \A spacing \in Amounts :
              LET s == AddCrossSpacing(ctx, Here, spacing, Hard)
              IN /\ s.run.size.width = run.size.width + Min(spacing, Room)
                 /\ s.run.last_spacing = LastHard

\* Soft spacing of 1 is pending on a run that has room for it and a box.
C9_Witness ==
    /\ run.last_spacing.tag = "Soft"
    /\ run.last_spacing.spacing = 1
    /\ run.layouts # << >>
    /\ Room >= 2
    /\ \E layout \in Boxes :
          Len(Add(ctx, Here, layout, RunAligns).run.layouts) = Len(run.layouts) + 1

\* The context with the cross direction of positive, and of negative,
\* polarity on the same axis.  The run does not depend on the polarity, which
\* only finish_line reads, so finishing the run under both contexts gives the
\* two placements of one call sequence.
Positive ==
    [ctx EXCEPT !.dirs.cross = IF @ \in {"LTR", "RTL"} THEN "LTR" ELSE "TTB"]
Negative ==
    [ctx EXCEPT !.dirs.cross = IF @ \in {"LTR", "RTL"} THEN "RTL" ELSE "BTT"]

\* C10: finish_line places a child at x = offset under positive cross
\* polarity and at x = run width - offset - cross extent of the child under
\* negative polarity, so the two x and the child's extent add up to the run
\* width, and under negative polarity the first box has the largest x.
C10_Mirrored ==
    run.layouts # << >> =>
        LET pos == FinishLine(Positive, Here).out[1].children
            neg == FinishLine(Negative, Here).out[1].children
            own == FinishLine(ctx, Here).out[1].children
        IN /\ Len(pos) = Len(run.layouts)
           /\ Len(neg) = Len(run.layouts)
           /\ own = IF ctx.dirs.cross \in {"LTR", "TTB"} THEN pos ELSE neg
           /\ \A i \in 1..Len(run.layouts) :
                 LET extent == CrossExtent(run.layouts[i].layout.size)
                 IN /\ pos[i].x = run.layouts[i].offset
                    /\ neg[i].x = run.size.width - run.layouts[i].offset - extent
                    /\ neg[i].x + pos[i].x + extent = run.size.width
                    /\ neg[1].x >= neg[i].x
                    /\ pos[i].layout = run.layouts[i].layout
                    /\ neg[i].layout = run.layouts[i].layout

\* Under negative polarity a run holds two boxes with spacing between them,
\* and the line puts the first one at the larger x.
C10_Witness ==
    /\ ctx.dirs.cross \in {"RTL", "BTT"}
    /\ Len(run.layouts) = 2
    /\ run.layouts[2].offset > CrossExtent(run.layouts[1].layout.size)
    /\ LET own == FinishLine(ctx, Here).out[1].children
       IN own[1].x > own[2].x /\ own[2].x = 0

\* C11: in every state remaining() returns what is left of the active space
\* with its main extent reduced by the height of the current run and its cross
\* extent untouched, followed by the stack's later spaces unchanged; the call
\* leaves the run and the stack as they were and reaches the stack with no
\* line.
C11_Remaining ==
    pc = "active" =>
        LET r == Remaining(ctx, Here)
            later == Len(stack.spaces) - NextSpace(stack) + 1
        IN /\ Len(r.spaces) = 1 + later
           /\ MainExtent(r.spaces[1]) = MainExtent(stack.usable) - run.size.height
           /\ CrossExtent(r.spaces[1]) = CrossExtent(stack.usable)
           /\ \A i \in 1..later :
                 r.spaces[1 + i] = stack.spaces[NextSpace(stack) + i - 1]
           /\ r.run = run
           /\ r.stack = stack
           /\ r.out = << >>

\* Mid-run, with a line already placed in the first of two different spaces,
\* the run is higher than wide.
C11_Witness ==
    /\ run.layouts # << >>
    /\ run.size.height = 2
    /\ run.size.width = 1
    /\ stack.active = 1
    /\ Len(stack.spaces) = 2
    /\ stack.spaces[1] # stack.spaces[2]
    /\ stack.usable # stack.spaces[1]
    /\ Remaining(ctx, Here).spaces[2] = stack.spaces[2]

\* The run holds no box and has zero aggregate size.
RunEmpty == run.layouts = << >> /\ run.size.width = 0 /\ run.size.height = 0

\* C12: set_spaces makes exactly one call on the stack, set_spaces with the
\* given spaces and the flag replace_empty AND run empty; with a box or applied
\* spacing in the run the flag is false and the stack keeps its active space
\* and what is left of it; the run is never finished or altered.
C12_ReplaceOnlyWhenEmpty ==
    \A spaces \in SpaceLists, replace_empty \in BOOLEAN :
        LET s == SetSpaces(ctx, Here, spaces, replace_empty)
        IN /\ s.out = <<CallSetSpaces(spaces, replace_empty /\ RunEmpty)>>
           /\ s.run = run
           /\ (run.layouts # << >> \/ run.size.width # 0 \/ run.size.height # 0) =>
                 /\ s.out[1].flag = FALSE
                 /\ s.stack.active = stack.active
                 /\ s.stack.usable = stack.usable
                 /\ SubSeq(s.stack.spaces, 1, stack.active)
                        = SubSeq(stack.spaces, 1, stack.active)
                 /\ SubSeq(s.stack.spaces, stack.active + 1, Len(s.stack.spaces))
                        = spaces

\* The run holds only applied hard spacing while nothing has been laid out
\* into the stack's active space: the stack would replace that space if asked
\* to, and set_spaces with replace_empty does not ask it to.
C12_Witness ==
    /\ run.layouts = << >>
    /\ run.size.width > 0
    /\ StackSpaceIsEmpty(Here)
    /\ \E spaces \in SpaceLists :
          /\ spaces[1] # stack.spaces[stack.active]
          /\ SetSpaces(ctx, Here, spaces, TRUE).stack.usable = stack.usable
          /\ SetSpacesUnguarded(ctx, Here, spaces, TRUE).stack.usable # stack.usable

\* The layouter right after construction with the stack's current spaces.
Untouched == [run |-> NewRun, stack |-> NewStack(stack.spaces), out |-> << >>]

\* What finish, finish_space and add_main_spacing do on an empty run: the
\* stack receives the forwarded call alone, neither a line nor line spacing,
\* and the run stays as it is; finish on an untouched layouter reaches the
\* stack exactly as finishing the untouched stack does.
ForwardsAlone ==
    /\ Finish(ctx, Here).out = <<CallFinish>>
    /\ Finish(ctx, Here).run = run
    /\ Finish(ctx, Here).stack = stack
    /\ Finish(ctx, Untouched) = StackFinish(ctx, Untouched)
    /\ \A hard \in BOOLEAN :
          /\ FinishSpace(ctx, Here, hard).out = <<CallFinishSpace(hard)>>
          /\ FinishSpace(ctx, Here, hard).run = run
    /\ \A spacing \in Amounts, kind \in Kinds :
          /\ AddMainSpacing(ctx, Here, spacing, kind).out
                = <<CallSpacing(spacing, kind)>>
          /\ AddMainSpacing(ctx, Here, spacing, kind).run = run

\* C13 as stated: on an empty run finish_line is a no-op, and finish,
\* finish_space and add_main_spacing forward neither a line nor line spacing.
C13_FinishLineNoOp ==
    (pc = "active" /\ LineIsEmpty(Here)) =>
        /\ ForwardsAlone
        /\ FinishLine(ctx, Here).out = << >>
        /\ FinishLine(ctx, Here).run = run
        /\ FinishLine(ctx, Here).stack = stack

\* C13 amended: on an empty run finish, finish_space and add_main_spacing
\* forward neither a line nor line spacing; finish_line itself, called on an
\* empty run, forwards an empty line of size zero with the default alignment
\* followed by the line spacing.
C13_GuardedFinishNoOp ==
    (pc = "active" /\ LineIsEmpty(Here)) =>
        /\ ForwardsAlone
        /\ FinishLine(ctx, Here).out =
              <<CallAdd([size |-> ZERO, children |-> << >>], DefaultAligns),
                CallSpacing(ctx.line_spacing, LINE)>>
        /\ FinishLine(ctx, Here).run = NewRun

\* The run is empty again after lines were placed in the active space.
C13_Witness ==
    /\ pc = "active"
    /\ LineIsEmpty(Here)
    /\ stack.usable # stack.spaces[stack.active]
    /\ ctx.line_spacing = 1
    /\ Finish(ctx, Here).out = <<CallFinish>>

\* The line finish_line makes of the current run: its size in the physical
\* frame, its captured (or the default) alignment and its boxes in order.
RunLine(s) ==
    /\ s.call = "add"
    /\ s.size = Specialized(run.size, ctx.dirs)
    /\ s.aligns = (IF run.aligns.some THEN RunAligns ELSE DefaultAligns)
    /\ [i \in 1..Len(s.children) |-> s.children[i].layout] = RunBoxes

\* The stack calls are the run's line, the line spacing of the context c and
\* then the forwarded call, and the run is empty afterwards.
Flushed(c, s, forwarded) ==
    /\ Len(s.out) = 3
    /\ RunLine(s.out[1])
    /\ s.out[2] = CallSpacing(c.line_spacing, LINE)
    /\ s.out[3] = forwarded
    /\ s.run = NewRun
    /\ LineIsEmpty(s)

\* C14: with a non-empty run, add_main_spacing, finish_space and finish first
\* forward the run's line, then the line spacing most recently set by
\* set_line_spacing (the context's initial one if none was set), tagged LINE,
\* and only then add_spacing with amount and kind unchanged, finish_space(hard)
\* or finish; the run is empty afterwards.
C14_FlushedFirst ==
    (pc = "active" /\ ~LineIsEmpty(Here)) =>
        \A line_spacing \in {ctx.line_spacing} \cup 0..MaxLineSpacing :
            LET c == IF line_spacing = ctx.line_spacing
                     THEN ctx ELSE SetLineSpacing(ctx, line_spacing)
            IN /\ c.line_spacing = line_spacing
               /\ Flushed(c, Finish(c, Here), CallFinish)
               /\ \A hard \in BOOLEAN :
                     Flushed(c, FinishSpace(c, Here, hard), CallFinishSpace(hard))
               /\ \A spacing \in Amounts, kind \in Kinds :
                     Flushed(c, AddMainSpacing(c, Here, spacing, kind),
                             CallSpacing(spacing, kind))

\* A run of two boxes is pending while the line spacing is 1.
C14_Witness ==
    /\ pc = "active"
    /\ Len(run.layouts) = 2
    /\ ctx.line_spacing = 1
    /\ Len(AddMainSpacing(ctx, Here, 2, Hard).out) = 3
    /\ AddMainSpacing(ctx, Here, 2, Hard).out[3] = CallSpacing(2, Hard)

\* Every line among the stack calls carries the alignment its children were
\* added with.
LinesCarry(calls) ==
    \A i \in 1..Len(calls) :
        calls[i].call = "add" =>
            \A k \in 1..Len(calls[i].children) :
                calls[i].children[k].layout.aligns = calls[i].aligns

\* What an operation other than add leaves: the run with its boxes and its
\* captured alignment, or no boxes at all; every line it forwards carries the
\* alignment of its children.
KeepsAlignment(s) ==
    /\ s.run.layouts # << >> =>
          (s.run.layouts = run.layouts /\ s.run.aligns = run.aligns)
    /\ LinesCarry(s.out)

\* C15: every box held by the run was added with the alignment the run
\* captured; an add with another alignment closes the run's boxes into a line
\* before the captured alignment changes, an add with the same alignment keeps
\* it, no other operation changes it while boxes are held, and every line
\* forwarded to the stack carries the alignment of all its children.
C15_OneAlignment ==
    /\ run.layouts # << >> => run.aligns.some
    /\ \A i \in 1..Len(run.layouts) : run.layouts[i].layout.aligns = RunAligns
    /\ pc = "active" =>
          /\ \A layout \in Boxes, aligns \in AddAligns :
                LET box == Tagged(layout, aligns)
                    s == Add(ctx, Here, box, aligns)
                IN /\ s.run.aligns = SomeAligns(aligns)
                   /\ \A i \in 1..Len(s.run.layouts) :
                         s.run.layouts[i].layout.aligns = aligns
                   /\ (run.layouts # << >> /\ aligns # RunAligns) =>
                         /\ s.run.layouts = <<[offset |-> 0, layout |-> box]>>
                         /\ RunLine(s.out[1])
                   /\ LinesCarry(s.out)
          /\ \A spacing \in Amounts, kind \in Kinds :
                /\ KeepsAlignment(AddCrossSpacing(ctx, Here, spacing, kind))
                /\ KeepsAlignment(AddMainSpacing(ctx, Here, spacing, kind))
          /\ \A hard \in BOOLEAN : KeepsAlignment(FinishSpace(ctx, Here, hard))
          /\ \A spaces \in SpaceLists, replace_empty \in BOOLEAN :
                KeepsAlignment(SetSpaces(ctx, Here, spaces, replace_empty))
          /\ KeepsAlignment(FinishLine(ctx, Here))
          /\ KeepsAlignment(Finish(ctx, Here))

\* A run of two boxes added with a cross alignment of Center is closed by an
\* add with a cross alignment of Start.
C15_Witness ==
    /\ pc = "active"
    /\ Len(run.layouts) = 2
    /\ run.aligns.cross = Center
    /\ run.aligns.main = End
    /\ \E layout \in Boxes :
          LET s == Add(ctx, Here, Tagged(layout, [main |-> End, cross |-> Start]),
                       [main |-> End, cross |-> Start])
          IN /\ Len(s.out[1].children) = 2
             /\ s.out[1].aligns = RunAligns
             /\ Len(s.run.layouts) = 1

\* The main extents of the lines among a sequence of stack calls.
LineHeights(calls) ==
    [i \in 1..Len(Lines(calls)) |-> MainExtent(Lines(calls)[i].size)]

\* The highest of the children of a line.
HighestChild(line) ==
    MaxMain([k \in 1..Len(line.children) |-> line.children[k].layout])

\* The lines each operation forwards in the current state.
Forwarded ==
    {Lines(Add(ctx, Here, layout, aligns).out) :
        layout \in Boxes, aligns \in AddAligns}
    \cup {Lines(FinishSpace(ctx, Here, hard).out) : hard \in BOOLEAN}
    \cup {Lines(FinishLine(ctx, Here).out), Lines(Finish(ctx, Here).out)}

\* C16 as stated: the height of the run is the maximum main extent of the
\* boxes it holds, 0 without boxes, and every line forwarded to the stack is
\* as high as the highest of its children.
C16_HeightOwnBoxes ==
    /\ run.size.height = MaxMain(RunBoxes)
    /\ pc = "active" =>
          \A lines \in Forwarded :
              \A i \in 1..Len(lines) :
                  MainExtent(lines[i].size) = HighestChild(lines[i])

\* C16 amended: the height of the run is at least the maximum main extent of
\* the boxes it holds and equal to it for a run without usable override; a run
\* spawned by a cross alignment increase starts with the height of the run
\* before it and has the maximum of that height and the main extent of the
\* box once the box is placed; every line forwarded to the stack has the
\* height of the run the operation found, which is at least the highest of
\* its children.
C16_HeightOwnOrInherited ==
    /\ run.size.height >= MaxMain(RunBoxes)
    /\ ~run.usable.some => run.size.height = MaxMain(RunBoxes)
    /\ pc = "active" =>
          /\ \A layout \in Boxes, aligns \in AddAligns :
                CrossIncrease(aligns) =>
                    /\ RestRun(ctx, Here, aligns).size.height = run.size.height
                    /\ LET s == Add(ctx, Here, layout, aligns)
                       IN s.run.usable.some =>
                             s.run.size.height
                                 = Max(run.size.height, MainExtent(layout.size))
          /\ \A lines \in Forwarded :
                \A i \in 1..Len(lines) :
                    /\ MainExtent(lines[i].size) = run.size.height
                    /\ MainExtent(lines[i].size) >= HighestChild(lines[i])

\* A spawned run holds two boxes and is higher than both.
C16_Witness ==
    /\ pc = "active"
    /\ run.usable.some
    /\ Len(run.layouts) = 2
    /\ run.size.height = 2
    /\ MaxMain(RunBoxes) = 1
    /\ LineHeights(Finish(ctx, Here).out) = <<2>>

\* C17: under the order Start < Center < End, whatever the directions, an add
\* takes the branch of a cross alignment increase (same main alignment as the
\* run, cross alignment greater than the run's) only with a cross alignment of
\* Center or End, never Start; with Start it takes the branch of a decrease
\* or continues the run.
C17_StartNeverIncreases ==
    pc = "active" =>
        \A aligns \in Aligns :
            /\ CrossIncrease(aligns) => aligns.cross \in {Center, End}
            /\ (run.aligns.some /\ aligns.cross = Start) =>
                  \A layout \in Boxes :
                      ~Add(ctx, Here, layout, aligns).run.usable.some

\* Under a mirrored cross direction a Center aligned run can be followed by
\* an End box, which spawns a run, and by a Start box, which does not.
C17_Witness ==
    /\ pc = "active"
    /\ ctx.dirs.cross = "RTL"
    /\ run.aligns.some
    /\ run.aligns.cross = Center
    /\ \E layout \in Boxes :
          /\ Add(ctx, Here, layout, [main |-> run.aligns.main, cross |-> End])
                .run.usable.some
          /\ Lines(Add(ctx, Here, layout, [main |-> run.aligns.main, cross |-> Start])
                .out) # << >>

\* C18: over every call sequence the children of the forwarded lines, taken
\* in the order the lines reach the stack, are the boxes added, in the order
\* they were added, each once: what has been forwarded was always the front
\* of what was added and not yet forwarded, the rest is held by the run in
\* order, and nothing is left once finish() has returned.
C18_Conserved ==
    /\ owed.ok
    /\ owed.boxes = RunBoxes
    /\ pc = "finished" => (owed.boxes = << >> /\ run.layouts = << >>)
    /\ pc = "active" =>
          /\ Children(Finish(ctx, Here).out) = owed.boxes
          /\ \A layout \in Boxes, aligns \in AddAligns :
                LET s == Add(ctx, Here, layout, aligns)
                IN Children(s.out)
                       \o [i \in 1..Len(s.run.layouts) |-> s.run.layouts[i].layout]
                   = Append(RunBoxes, layout)

\* After a line has been placed the run holds two different boxes, which
\* finish forwards in the order they were added.
C18_Witness ==
    /\ pc = "active"
    /\ Len(run.layouts) = 2
    /\ run.layouts[1].layout # run.layouts[2].layout
    /\ stack.usable # stack.spaces[stack.active]
    /\ Children(Finish(ctx, Here).out)
          = <<run.layouts[1].layout, run.layouts[2].layout>>

\* The cross extent of the first line among the calls `s` made, and the
\* offset of the first box of the run `s` leaves.
FirstLineWidth(s) == CrossExtent(Lines(s.out)[1].size)
FirstOffset(s) == s.run.layouts[1].offset

\* C19: a run is created with the spacing state Hard, at construction, by
\* finish_line and as the sibling run of a cross alignment increase, and keeps
\* it until its first box; a soft cross spacing requested before the first
\* box changes nothing and the box is placed as without the request.  A soft
\* spacing pending when a line is finished is not part of the line's width
\* and not carried over: the next run starts with Hard and its first box sits
\* at offset 0.
C19_FreshRunHard ==
    /\ run.layouts = << >> => run.last_spacing = LastHard
    /\ pc = "active" =>
          /\ FinishLine(ctx, Here).run.last_spacing = LastHard
          /\ \A aligns \in AddAligns :
                CrossIncrease(aligns) =>
                    RestRun(ctx, Here, aligns).last_spacing = LastHard
    /\ (pc = "active" /\ run.layouts = << >>) =>
          \A spacing \in Amounts, level \in Levels :
              LET soft == AddCrossSpacing(ctx, Here, spacing, Soft(level))
              IN /\ soft = Here
                 /\ \A layout \in Boxes, aligns \in AddAligns :
                       /\ Add(ctx, soft, layout, aligns)
                              = Add(ctx, Here, layout, aligns)
                       /\ LET s == Add(ctx, soft, layout, aligns)
                          IN IF Lines(s.out) = << >>
                             THEN FirstOffset(s) = run.size.width
                             ELSE FirstLineWidth(s) = run.size.width
    /\ (pc = "active" /\ run.last_spacing.tag = "Soft") =>
          /\ FinishLine(ctx, Here).run = NewRun
          /\ FirstLineWidth(FinishLine(ctx, Here)) = run.size.width
          /\ FirstLineWidth(Finish(ctx, Here)) = run.size.width
          /\ \A layout \in Boxes, aligns \in AddAligns :
                aligns # RunAligns =>
                    LET s == Add(ctx, Here, layout, aligns)
                    IN /\ FirstLineWidth(s) = run.size.width
                       /\ FirstOffset(s) = 0
                       /\ s.run.size.width = CrossExtent(layout.size)
                       /\ s.run.last_spacing = LastNone

\* A soft spacing of 2 is pending behind the only box of a run that has room
\* for it; finishing the line drops it.
C19_Witness ==
    /\ pc = "active"
    /\ run.last_spacing = LastSoft(2, 2)
    /\ Len(run.layouts) = 1
    /\ Room >= 2
    /\ FinishLine(ctx, Here).run.last_spacing = LastHard
    /\ FirstLineWidth(FinishLine(ctx, Here)) = CrossExtent(run.layouts[1].layout.size)

\* The box does not fit the run a cross alignment increase spawns: the test
\* of the fit check on the spawned run.
MissesSibling(layout, aligns) ==
    /\ CrossIncrease(aligns)
    /\ ~Fits(Usable(ctx, Reconcile(ctx, Here, aligns)),
             Generalized(layout.size, ctx.dirs))

\* C20: when the box of a cross alignment increase does not fit the spawned
\* run, which has the height h > 0 of the run before it, the stack receives
\* the previous run as a line of height h, the line spacing, Hard(-h), an
\* empty line of height h (no children, cross extent 0, default alignment)
\* and the line spacing again; the hard main-axis advance of these calls nets
\* to h.  The box then starts a run without usable override at offset 0 whose
\* height is the box's own; a skip to a fitting space follows the five calls
\* only if the box does not fit that fresh run either.
C20_EmptySiblingLine ==
    pc = "active" =>
        \A layout \in Boxes, aligns \in AddAligns :
            /\ (CrossIncrease(aligns)
                    /\ CrossExtent(layout.size) > SiblingWindow(aligns))
                  => MissesSibling(layout, aligns)
            /\ MissesSibling(layout, aligns) =>
                  LET s == Add(ctx, Here, layout, aligns)
                      h == run.size.height
                  IN /\ h > 0
                     /\ Len(s.out) >= 5
                     /\ RunLine(s.out[1])
                     /\ MainExtent(s.out[1].size) = h
                     /\ s.out[2] = CallSpacing(ctx.line_spacing, LINE)
                     /\ s.out[3] = CallSpacing(-h, Hard)
                     /\ s.out[4] = CallAdd([size |-> Specialized(Size(0, h), ctx.dirs),
                                            children |-> << >>], DefaultAligns)
                     /\ MainExtent(s.out[4].size) = h
                     /\ s.out[5] = CallSpacing(ctx.line_spacing, LINE)
                     /\ MainExtent(s.out[1].size) + s.out[3].amount
                            + MainExtent(s.out[4].size) = h
                     /\ SubSeq(s.out, 6, Len(s.out)) \in {<< >>, <<CallSkip(layout.size)>>}
                     /\ ~s.run.usable.some
                     /\ s.run.layouts = <<[offset |-> 0, layout |-> layout]>>
                     /\ s.run.size = Generalized(layout.size, ctx.dirs)
                     /\ s.run.aligns = SomeAligns(aligns)

\* A Start aligned run of width 2 and height 1 in a usable width of 3 is
\* followed by an End aligned box of cross extent 2, which the spawned run has
\* no room for while a fresh run has.
C20_Witness ==
    /\ pc = "active"
    /\ run.aligns.some
    /\ run.aligns.cross = Start
    /\ run.size = Size(2, 1)
    /\ CrossExtent(stack.usable) = 3
    /\ \E layout \in Boxes :
          /\ CrossExtent(layout.size) = 2
          /\ MissesSibling(layout, [main |-> run.aligns.main, cross |-> End])
          /\ Len(Add(ctx, Here, layout, [main |-> run.aligns.main, cross |-> End]).out) = 5

====
